---- MODULE Spec2Model ----
(***************************************************************************)
(* Text-recovery pipeline of the social-media content analyzer backend:    *)
(* the OCR extractor (preprocess, four recognition profiles, sanitizer,    *)
(* quality scorer, selector), the PDF extractor with its relaxed retry,    *)
(* and the upload route that dispatches to them.                           *)
(*                                                                         *)
(* A text is a sequence of one-character strings.  Regular expressions of  *)
(* the source are sequences of items matched by a backtracking matcher     *)
(* with the priorities of the JavaScript engine (greedy quantifiers,       *)
(* leftmost match, global replacement over non-overlapping matches).       *)
(***************************************************************************)
EXTENDS Integers, Sequences, FiniteSets, TLC

\* ------------------------------------------------------------------------
\* Characters and character classes
\* ------------------------------------------------------------------------

LowerSeq == <<"a","b","c","d","e","f","g","h","i","j","k","l","m",
              "n","o","p","q","r","s","t","u","v","w","x","y","z">>
UpperSeq == <<"A","B","C","D","E","F","G","H","I","J","K","L","M",
              "N","O","P","Q","R","S","T","U","V","W","X","Y","Z">>

Lower  == {LowerSeq[i] : i \in 1..26}
Upper  == {UpperSeq[i] : i \in 1..26}
Letter == Lower \cup Upper
Digit  == {"0","1","2","3","4","5","6","7","8","9"}
\* [a-zA-Z0-9]
AlNum  == Letter \cup Digit
\* \w
WordCh == AlNum \cup {"_"}
\* \s (the line terminator is the only vertical white space of the model)
Space  == {" ", "\t", "\n"}
\* characters that are neither \w nor \s
Symbol == {"@", "[", "]", "{", "}", "\"", "'", "#", "*", ".", ",", "!", "-", "|"}
Alphabet == WordCh \cup Space \cup Symbol
\* [^\w\s]
NotWordNotSpace == Alphabet \ (WordCh \cup Space)
\* [^\w]
NotWord == Alphabet \ WordCh
\* . (no line terminator)
Dot == Alphabet \ {"\n"}

\* both cases of a letter: a literal letter under the i flag
BothCases(ch) ==
  IF ch \in Letter
    THEN LET i == CHOOSE j \in 1..26 : LowerSeq[j] = ch \/ UpperSeq[j] = ch
         IN {LowerSeq[i], UpperSeq[i]}
    ELSE {ch}

\* ------------------------------------------------------------------------
\* Regular expressions: items and the backtracking matcher
\* ------------------------------------------------------------------------

Bol      == [t |-> "bol",  c |-> {}]
Eol      == [t |-> "eol",  c |-> {}]
One(cl)  == [t |-> "one",  c |-> cl]
Opt(cl)  == [t |-> "opt",  c |-> cl]
Plus(cl) == [t |-> "plus", c |-> cl]
Star(cl) == [t |-> "star", c |-> cl]
\* a literal word under the i flag
LitCI(w) == [i \in 1..Len(w) |-> One(BothCases(w[i]))]

RECURSIVE RunLen(_, _, _)
\* number of consecutive characters of class cl in s from position p
RunLen(s, p, cl) ==
  IF p <= Len(s) /\ s[p] \in cl THEN 1 + RunLen(s, p + 1, cl) ELSE 0

RECURSIVE MatchFrom(_, _, _, _)
RECURSIVE TryRep(_, _, _, _, _, _)
\* Match items k.. of re against s from position p: the position after the
\* match found first in priority order, or 0 when there is none.
MatchFrom(re, k, s, p) ==
  IF k > Len(re) THEN p
  ELSE LET it == re[k] IN
    CASE it.t = "bol"  -> IF p = 1 \/ s[p - 1] = "\n"
                            THEN MatchFrom(re, k + 1, s, p) ELSE 0
      [] it.t = "eol"  -> IF p = Len(s) + 1 \/ s[p] = "\n"
                            THEN MatchFrom(re, k + 1, s, p) ELSE 0
      [] it.t = "one"  -> IF p <= Len(s) /\ s[p] \in it.c
                            THEN MatchFrom(re, k + 1, s, p + 1) ELSE 0
      [] it.t = "opt"  -> TryRep(re, k, s, p,
                                 IF RunLen(s, p, it.c) > 0 THEN 1 ELSE 0, 0)
      [] it.t = "plus" -> TryRep(re, k, s, p, RunLen(s, p, it.c), 1)
      [] it.t = "star" -> TryRep(re, k, s, p, RunLen(s, p, it.c), 0)

\* greedy repetition: j characters first, then fewer, down to min
TryRep(re, k, s, p, j, min) ==
  IF j < min THEN 0
  ELSE LET r == MatchFrom(re, k + 1, s, p + j)
       IN IF r # 0 THEN r ELSE TryRep(re, k, s, p, j - 1, min)

RECURSIVE MatchAlt(_, _, _, _)
\* res is a sequence of regular expressions that differ in a trailing
\* alternative: the match of the first alternative that matches at p
MatchAlt(res, a, s, p) ==
  IF a > Len(res) THEN 0
  ELSE LET r == MatchFrom(res[a], 1, s, p)
       IN IF r # 0 THEN r ELSE MatchAlt(res, a + 1, s, p)

RECURSIVE ReplaceFrom(_, _, _, _)
\* String.prototype.replace(/.../g, ''): delete every non-overlapping match,
\* scanning left to right (no expression of the source matches the empty
\* string)
ReplaceFrom(res, s, p, acc) ==
  IF p > Len(s) THEN acc
  ELSE LET e == MatchAlt(res, 1, s, p)
       IN IF e > p THEN ReplaceFrom(res, s, e, acc)
          ELSE ReplaceFrom(res, s, p + 1, Append(acc, s[p]))

ReplaceAll(res, s) == ReplaceFrom(res, s, 1, <<>>)

\* RegExp.prototype.test for an expression anchored at the start
TestAnchored(res, s) == MatchAlt(res, 1, s, 1) # 0

\* ------------------------------------------------------------------------
\* String helpers
\* ------------------------------------------------------------------------

RECURSIVE SplitFrom(_, _, _, _)
\* String.prototype.split('\n')
SplitFrom(s, p, cur, acc) ==
  IF p > Len(s) THEN Append(acc, cur)
  ELSE IF s[p] = "\n" THEN SplitFrom(s, p + 1, <<>>, Append(acc, cur))
  ELSE SplitFrom(s, p + 1, Append(cur, s[p]), acc)

SplitLines(s) == SplitFrom(s, 1, <<>>, <<>>)

RECURSIVE JoinLines_BlankLine(_)
\* variant: the lines are joined with an empty line between them
JoinLines_BlankLine(ls) ==
  IF Len(ls) = 0 THEN <<>>
  ELSE IF Len(ls) = 1 THEN ls[1]
  ELSE ls[1] \o <<"\n", "\n">> \o JoinLines_BlankLine(Tail(ls))

RECURSIVE JoinLines(_)
\* Array.prototype.join('\n')
JoinLines(ls) ==
  IF Len(ls) = 0 THEN <<>>
  ELSE IF Len(ls) = 1 THEN ls[1]
  ELSE ls[1] \o <<"\n">> \o JoinLines(Tail(ls))

RECURSIVE TrimLeft(_)
TrimLeft(s) ==
  IF Len(s) > 0 /\ s[1] \in Space THEN TrimLeft(Tail(s)) ELSE s

RECURSIVE TrimRight(_)
TrimRight(s) ==
  IF Len(s) > 0 /\ s[Len(s)] \in Space
    THEN TrimRight(SubSeq(s, 1, Len(s) - 1)) ELSE s

\* String.prototype.trim
Trim(s) == TrimRight(TrimLeft(s))

RECURSIVE CountIn(_, _)
\* (s.match(/[cl]/g) || []).length
CountIn(s, cl) ==
  IF Len(s) = 0 THEN 0
  ELSE (IF s[1] \in cl THEN 1 ELSE 0) + CountIn(Tail(s), cl)

RECURSIVE CollapseNewlines(_, _)
\* replace(/\n{3,}/g, '\n\n')
CollapseNewlines(s, p) ==
  IF p > Len(s) THEN <<>>
  ELSE LET n == RunLen(s, p, {"\n"})
       IN IF n >= 3 THEN <<"\n", "\n">> \o CollapseNewlines(s, p + n)
          ELSE <<s[p]>> \o CollapseNewlines(s, p + 1)

RECURSIVE CollapseBlanks(_, _)
\* replace(/[ \t]+/g, ' ')
CollapseBlanks(s, p) ==
  IF p > Len(s) THEN <<>>
  ELSE LET n == RunLen(s, p, {" ", "\t"})
       IN IF n >= 1 THEN <<" ">> \o CollapseBlanks(s, p + n)
          ELSE <<s[p]>> \o CollapseBlanks(s, p + 1)

\* replace(/[cl]/g, to): one character for one character
MapChars(s, cl, to) == [i \in 1..Len(s) |-> IF s[i] \in cl THEN to ELSE s[i]]

\* replace(/[cl]/g, '')
DeleteChars(s, cl) == SelectSeq(s, LAMBDA ch : ch \notin cl)

\* ------------------------------------------------------------------------
\* Text Sanitizer: cleanOCRText
\* ------------------------------------------------------------------------

W_other   == <<"o","t","h","e","r">>
W_others  == <<"o","t","h","e","r","s">>
W_comment == <<"c","o","m","m","e","n","t">>
W_and     == <<"a","n","d">>
W_like    == <<"l","i","k","e">>
W_share   == <<"s","h","a","r","e">>
W_repost  == <<"r","e","p","o","s","t">>
W_send    == <<"s","e","n","d">>
OptS      == Opt(BothCases("s"))

\* /^[^\w\s]{1,2}$/gm
RE_Noise12 == <<Bol, One(NotWordNotSpace), Opt(NotWordNotSpace), Eol>>
\* /^[^\w\s]{3,}$/gm
RE_Noise3 == <<Bol, One(NotWordNotSpace), One(NotWordNotSpace),
               Plus(NotWordNotSpace), Eol>>
\* /[€@®©™]/g: of these glyphs the model's alphabet has "@"
GlyphChars == {"@"}
\* /[\[\]{}]/g
BracketChars == {"[", "]", "{", "}"}
\* /^\d+\s+(others?|comments?)$/gmi, one expression per alternative
RE_CountLine ==
  << <<Bol, Plus(Digit), Plus(Space)>> \o LitCI(W_other) \o <<OptS, Eol>>,
     <<Bol, Plus(Digit), Plus(Space)>> \o LitCI(W_comment) \o <<OptS, Eol>> >>
\* /and\s+\d+\s+others?\s+\d+\s+comments?/gi
RE_AndOthers ==
  LitCI(W_and) \o <<Plus(Space), Plus(Digit), Plus(Space)>> \o LitCI(W_other)
    \o <<OptS, Plus(Space), Plus(Digit), Plus(Space)>> \o LitCI(W_comment)
    \o <<OptS>>
\* /^\d+\s+comments?$/gmi
RE_CommentsLine ==
  <<Bol, Plus(Digit), Plus(Space)>> \o LitCI(W_comment) \o <<OptS, Eol>>
\* /[A-Z][a-z]+\s+[A-Z][a-z]+\s+[A-Z][a-z]+.*and\s+\d+\s+others.*\d+\s+comments?/gi
RE_NamesAndOthers ==
  <<One(Letter), Plus(Letter), Plus(Space),
    One(Letter), Plus(Letter), Plus(Space),
    One(Letter), Plus(Letter), Star(Dot)>>
    \o LitCI(W_and) \o <<Plus(Space), Plus(Digit), Plus(Space)>>
    \o LitCI(W_others) \o <<Star(Dot), Plus(Digit), Plus(Space)>>
    \o LitCI(W_comment) \o <<OptS>>

\* the predicate of the first filter (lines 93-99), on a trimmed line
DenseLine(line) ==
  /\ ~(Len(line) < 3)
  /\ 10 * CountIn(line, AlNum) >= 3 * Len(line)

\* engagementPatterns (lines 108-113), one expression per alternative
\* /^\d+\s*(like|comment|share|repost)/i
RE_CountLabel ==
  << <<Bol, Plus(Digit), Star(Space)>> \o LitCI(W_like),
     <<Bol, Plus(Digit), Star(Space)>> \o LitCI(W_comment),
     <<Bol, Plus(Digit), Star(Space)>> \o LitCI(W_share),
     <<Bol, Plus(Digit), Star(Space)>> \o LitCI(W_repost) >>
\* /^(like|comment|share|repost|send)$/i
RE_Label ==
  << <<Bol>> \o LitCI(W_like) \o <<Eol>>,
     <<Bol>> \o LitCI(W_comment) \o <<Eol>>,
     <<Bol>> \o LitCI(W_share) \o <<Eol>>,
     <<Bol>> \o LitCI(W_repost) \o <<Eol>>,
     <<Bol>> \o LitCI(W_send) \o <<Eol>> >>
\* /^[^\w]*$/
RE_NoWord == << <<Bol, Star(NotWord), Eol>> >>
\* /^[A-Z][a-z]+\s+[A-Z][a-z]+\s+and\s+\d+\s+others/i
RE_NameAndOthers ==
  << <<Bol, One(Letter), Plus(Letter), Plus(Space),
       One(Letter), Plus(Letter), Plus(Space)>>
       \o LitCI(W_and) \o <<Plus(Space), Plus(Digit), Plus(Space)>>
       \o LitCI(W_others) >>

engagementPatterns == <<RE_CountLabel, RE_Label, RE_NoWord, RE_NameAndOthers>>

\* the predicate of the second filter (lines 116-120)
KeptLine(line) ==
  LET trimmed == Trim(line)
  IN /\ Len(trimmed) > 0
     /\ ~(\E i \in 1..Len(engagementPatterns) :
            TestAnchored(engagementPatterns[i], trimmed))

cleanOCRText(text) ==
  LET c1  == ReplaceAll(<<RE_Noise12>>, text)
      c2  == ReplaceAll(<<RE_Noise3>>, c1)
      c3  == DeleteChars(c2, GlyphChars)
      c4  == DeleteChars(c3, BracketChars)
      c5  == MapChars(c4, {"\""}, "\"")
      c6  == MapChars(c5, {"'"}, "'")
      c7  == ReplaceAll(RE_CountLine, c6)
      c8  == ReplaceAll(<<RE_AndOthers>>, c7)
      c9  == ReplaceAll(<<RE_CommentsLine>>, c8)
      c10 == ReplaceAll(<<RE_NamesAndOthers>>, c9)
      ls1 == SplitLines(c10)
      ls2 == SelectSeq([i \in 1..Len(ls1) |-> Trim(ls1[i])], DenseLine)
      c11 == JoinLines(ls2)
      c12 == CollapseNewlines(c11, 1)
      c13 == CollapseBlanks(c12, 1)
      c14 == Trim(c13)
      ls3 == SelectSeq(SplitLines(c14), KeptLine)
  IN Trim(JoinLines(ls3))

\* ------------------------------------------------------------------------
\* Quality Scorer: scoreOCRQuality
\* ------------------------------------------------------------------------

RECURSIVE WordLens(_, _)
\* text.split(/\s+/).filter(w => w.length > 0), as the words' lengths
WordLens(s, p) ==
  IF p > Len(s) THEN <<>>
  ELSE IF s[p] \in Space THEN WordLens(s, p + 1)
  ELSE LET n == RunLen(s, p, Alphabet \ Space)
       IN <<n>> \o WordLens(s, p + n)

RECURSIVE SumSeq(_)
SumSeq(ns) == IF Len(ns) = 0 THEN 0 ELSE ns[1] + SumSeq(Tail(ns))

\* a line with wordChars.length >= l.length * 0.4
MeaningfulLine(l) == 10 * CountIn(l, AlNum) >= 4 * Len(l)

\* The score as the exact fraction num/den of the expression of line 153:
\*   (sum/n)/10*0.3 + (reasonable/n)*0.4 + (meaningful/L)*0.3
\*   = (3*sum*L + 40*reasonable*L + 30*meaningful*n) / (100*n*L)
scoreOCRQuality(text) ==
  IF Len(text) = 0 THEN [num |-> 0, den |-> 1]
  ELSE LET words == WordLens(text, 1)
           n     == Len(words)
       IN IF n = 0 THEN [num |-> 0, den |-> 1]
          ELSE LET sum   == SumSeq(words)
                   reas  == Len(SelectSeq(words, LAMBDA w : w >= 3 /\ w <= 20))
                   lines == SelectSeq(SplitLines(text),
                                      LAMBDA l : Len(Trim(l)) > 0)
                   L     == Len(lines)
                   mean  == Len(SelectSeq(lines, MeaningfulLine))
               IN IF L > 0
                    THEN [num |-> 3 * sum * L + 40 * reas * L + 30 * mean * n,
                          den |-> 100 * n * L]
                    ELSE [num |-> 3 * sum + 40 * reas, den |-> 100 * n]

\* variant: the comparison of an ascending sort (a.quality - b.quality)
ScoreLess_Ascending(a, b) == b.num * a.den < a.num * b.den

\* b.quality - a.quality > 0, on fractions with positive denominators
ScoreLess(a, b) == a.num * b.den < b.num * a.den
ScoreEq(a, b)   == a.num * b.den = b.num * a.den

\* ------------------------------------------------------------------------
\* Bounds and input domains
\* ------------------------------------------------------------------------

\* texts the recognition engine may return for one profile
T_hello  == <<"h","e","l","l","o"," ","w","o","r","l","d">>
T_jello  == <<"j","e","l","l","o"," ","w","o","r","l","d">>
T_noisy  == <<"#","#","#","\n","h","i"," ","y","o","u"," ","|","|">>
T_symbol == <<"*","*","*">>
RawTexts == {T_hello, T_jello, T_noisy, T_symbol}

\* path.extname(req.file.originalname), as characters
E_pdf  == <<".","p","d","f">>
E_PDF  == <<".","P","D","F">>
E_png  == <<".","p","n","g">>
E_jpg  == <<".","j","p","g">>
E_jpeg == <<".","j","p","e","g">>
E_txt  == <<".","t","x","t">>
OriginalExts == {E_pdf, E_PDF, E_png, E_jpg, E_jpeg, E_txt}

\* req.file.path as multer may name it: with or without an extension
UploadPaths == {[stem |-> "uploads/f1", ext |-> ""],
                [stem |-> "uploads/f1", ext |-> ".png"]}

\* data.text of a parsed PDF
T_report == <<"Q","u","a","r","t","e","r","l","y"," ","R","e","p","o","r","t">>
T_blank  == <<"\n"," ","\n">>
T_pages  == <<"\n","a","\n","\n","\n","\n","b","\n">>
PdfTexts == {<<>>, T_report, T_blank, T_pages}

\* messages of the errors pdf-parse may reject with
PdfParseErrors == { <<"Invalid ", "XRef", " stream header">>,
                    <<"bad ", "xref", " entry">>,
                    <<"No ", "password", " given">>,
                    <<"stream is ", "corrupted">>,
                    <<"Unknown compression method">> }

\* messages are sequences of tokens; String.prototype.includes(t) is
\* membership of the token t
Includes(msg, t) == \E i \in 1..Len(msg) : msg[i] = t

NoResult     == [st |-> "none", text |-> <<>>, message |-> <<>>]
Returned(t)  == [st |-> "ok",   text |-> t,    message |-> <<>>]
Thrown(m)    == [st |-> "err",  text |-> <<>>, message |-> m]

\* ------------------------------------------------------------------------
\* State
\* ------------------------------------------------------------------------

VARIABLES
  files,            \* paths that exist on disk
  sharp,            \* whether require('sharp') succeeded at load time
  \* extractTextFromImage
  opc,              \* position in extractTextFromImage
  filePath,         \* its argument (req.file.path)
  worker,           \* "none", "live", "terminated"
  preprocessedPath, \* NullPath or the path computed at line 167
  imagePath,        \* what preprocessImage returned
  idx,              \* index of the configuration of the current iteration
  results,          \* the results array
  bestResult,       \* results[0] after the sort: <<>> for undefined, else <<r>>
  ocrError,         \* the error caught at line 240
  ocrResult,        \* how the call ended
  outcomes,         \* history: what each configuration's attempt did
  workerLog,        \* history: the calls made on the worker
  unlinkLog,        \* history: outcome of each fs.unlink(preprocessedPath)
  \* extractTextFromPDF
  ppc,              \* position in extractTextFromPDF
  pdfPath,          \* its argument
  parseError,       \* message of the error of the default parse
  data,             \* data.text of the parse that succeeded
  pdfError,         \* message of the error caught at line 61
  pdfResult,        \* how the call ended
  pdfTrace,         \* history: the states Parse, Retry, Normalize, Fail entered
  \* router.post('/')
  rpc,              \* position in the handler
  reqFile,          \* req.file: present, path, extension of originalname
  extractedText,
  routeError,       \* message of the error caught at line 69
  response,         \* the response sent (status 0: none yet)
  uploadUnlinkLog,  \* history: outcome of each fs.unlink of the upload
  \* one text through the sanitizer and the scorer (lines 209-210)
  tpc,              \* "idle", "raw", "cleaned", "scored"
  rawText,
  cleanedText,
  quality,
  \* two calls of extractTextFromImage running interleaved
  calls,            \* the locals of each call, and its position
  workers,          \* the workers created so far: state and parameters
  imageOf,          \* which call's picture each path holds (0: no file)
  accessLog,        \* history: the file accesses
  recognitions      \* history: worker.recognize calls

twoVars == <<calls, workers, imageOf, accessLog, recognitions>>

textVars == <<tpc, rawText, cleanedText, quality>>

pdfVars == <<ppc, pdfPath, parseError, data, pdfError, pdfResult, pdfTrace>>

routeVars == <<rpc, reqFile, extractedText, routeError, response,
               uploadUnlinkLog>>

ocrVars == <<opc, filePath, worker, preprocessedPath, imagePath, idx, results,
             bestResult, ocrError, ocrResult, outcomes, workerLog, unlinkLog>>

\* ------------------------------------------------------------------------
\* extractTextFromImage
\* ------------------------------------------------------------------------

\* the configurations array (lines 171-200)
configurations ==
  << [name |-> "PSM 6 - Single Block",
      params |-> [tessedit_pageseg_mode |-> "6", tessedit_ocr_engine_mode |-> "1"]],
     [name |-> "PSM 3 - Auto",
      params |-> [tessedit_pageseg_mode |-> "3", tessedit_ocr_engine_mode |-> "1"]],
     [name |-> "PSM 11 - Sparse",
      params |-> [tessedit_pageseg_mode |-> "11", tessedit_ocr_engine_mode |-> "1"]],
     [name |-> "PSM 6 - Legacy",
      params |-> [tessedit_pageseg_mode |-> "6", tessedit_ocr_engine_mode |-> "0"]] >>

NumConfigs == Len(configurations)

\* filePath.replace(/\.[^.]+$/, '_preprocessed.png'): a path is its stem and
\* its extension ("" when the path has none, and then nothing is replaced)
PreprocessedPathOf(p) ==
  IF p.ext = "" THEN p
  ELSE [stem |-> p.stem \o "_preprocessed", ext |-> ".png"]

\* lines 209-216: the candidate pushed for a recognized text
Candidate(text, k) ==
  LET cleaned == cleanOCRText(text)
  IN [text |-> cleaned, quality |-> scoreOCRQuality(cleaned),
      config |-> configurations[k].name]

RECURSIVE InsertSorted_TiesLast(_, _, _)
\* variant: x placed before the elements it ties with (the later push wins)
InsertSorted_TiesLast(x, rs, k) ==
  IF k > Len(rs) THEN Append(rs, x)
  ELSE IF ~ScoreLess(x.quality, rs[k].quality)
         THEN SubSeq(rs, 1, k - 1) \o <<x>> \o SubSeq(rs, k, Len(rs))
         ELSE InsertSorted_TiesLast(x, rs, k + 1)

RECURSIVE InsertSorted(_, _, _)
\* x placed after every element that does not compare below it
InsertSorted(x, rs, k) ==
  IF k > Len(rs) THEN Append(rs, x)
  ELSE IF ScoreLess(rs[k].quality, x.quality)
         THEN SubSeq(rs, 1, k - 1) \o <<x>> \o SubSeq(rs, k, Len(rs))
         ELSE InsertSorted(x, rs, k + 1)

RECURSIVE SortFrom(_, _, _)
SortFrom(rs, k, acc) ==
  IF k > Len(rs) THEN acc
  ELSE SortFrom(rs, k + 1, InsertSorted(rs[k], acc, 1))

\* variant: the array is left in push order
SortByQuality_None(rs) == rs

\* results.sort((a, b) => b.quality - a.quality): Array.prototype.sort is
\* stable, so equal qualities keep their push order
SortByQuality(rs) == SortFrom(rs, 1, <<>>)

\* results[0]: <<>> stands for undefined (an empty array)
First(rs) == IF Len(rs) = 0 THEN <<>> ELSE <<rs[1]>>

\* variant: only the missing candidate is rejected, not the empty text
NoBestText_OnlyUndefined(b) == Len(b) = 0

\* !bestResult || bestResult.text.length === 0
NoBestText(b) == Len(b) = 0 \/ Len(b[1].text) = 0

\* let preprocessedPath = null
NullPath == [stem |-> "", ext |-> ""]

NoOutcome == [kind |-> "none", text |-> <<>>]

MSG_NoTextImage == <<"No text could be extracted from the image">>
\* `Failed to extract text from image: ${error.message}`
MSG_ImageFailed(m) == <<"Failed to extract text from image: ">> \o m

\* the candidate each configuration pushed to the array rs: <<>> for a
\* configuration whose attempt failed (lines 206-219)
Candidates(rs) ==
  [k \in 1..NumConfigs |->
     SelectSeq(rs, LAMBDA r : r.config = configurations[k].name)]

RECURSIVE RunProfiles(_, _, _)
\* the results array after the loop of lines 205-220 ran the configurations
\* in the order `order`, from its i-th element on
RunProfiles(order, cands, i) ==
  IF i > Len(order) THEN <<>>
  ELSE cands[order[i]] \o RunProfiles(order, cands, i + 1)

\* lines 222-239 and 250: how the call ends for a results array
SelectFrom(rs) ==
  LET best == First(SortByQuality(rs))
  IN IF NoBestText(best) THEN Thrown(MSG_ImageFailed(MSG_NoTextImage))
     ELSE Returned(best[1].text)

\* the orders in which the four configurations can be run
Permutations4 ==
  {p \in [1..NumConfigs -> 1..NumConfigs] :
     \A i, j \in 1..NumConfigs : p[i] = p[j] => i = j}

\* fs.unlink(p): fails when p does not exist, and may fail on an existing
\* file (permissions, a busy file); `ok` is the outcome
UnlinkOutcomes(p) == IF p \in files THEN {TRUE, FALSE} ELSE {FALSE}
FilesAfterUnlink(p, ok) == IF ok THEN files \ {p} ELSE files

\* line 162, before the try block: a rejection leaves the function as it is
createWorker ==
  /\ opc = "createWorker"
  /\ \/ /\ worker' = "live"
        /\ workerLog' = Append(workerLog, [op |-> "createWorker", config |-> 0])
        /\ opc' = "preprocess"
        /\ UNCHANGED ocrResult
     \/ /\ ocrResult' = Thrown(<<"createWorker failed">>)
        /\ opc' = "thrown"
        /\ UNCHANGED <<worker, workerLog>>
  /\ UNCHANGED <<files, sharp, filePath, preprocessedPath, imagePath, idx,
                 results, bestResult, ocrError, outcomes, unlinkLog,
                 pdfVars, routeVars, textVars, twoVars>>

\* lines 167-168 and 19-23: the path of the preprocessed file, and
\* preprocessImage up to its first await
preprocessImage ==
  /\ opc = "preprocess"
  /\ preprocessedPath' = PreprocessedPathOf(filePath)
  /\ IF ~sharp
       THEN imagePath' = filePath /\ opc' = "setParameters"
       ELSE UNCHANGED imagePath /\ opc' = "metadata"
  /\ UNCHANGED <<files, sharp, filePath, worker, idx, results, bestResult,
                 ocrError, ocrResult, outcomes, workerLog, unlinkLog,
                 pdfVars, routeVars, textVars, twoVars>>

\* line 27: sharp(inputPath).metadata(), whose rejection is caught at line 52
metadata ==
  /\ opc = "metadata"
  /\ \/ opc' = "toFile" /\ UNCHANGED imagePath
     \/ imagePath' = filePath /\ opc' = "setParameters"
  /\ UNCHANGED <<files, sharp, filePath, worker, preprocessedPath, idx, results,
                 bestResult, ocrError, ocrResult, outcomes, workerLog, unlinkLog,
                 pdfVars, routeVars, textVars, twoVars>>

\* lines 35-51: pipeline.toFile(outputPath); a rejection (caught at line 52)
\* may leave a partly written output file behind
toFile ==
  /\ opc = "toFile"
  /\ \/ /\ files' = files \cup {preprocessedPath}
        /\ imagePath' = preprocessedPath
     \/ /\ files' \in {files, files \cup {preprocessedPath}}
        /\ imagePath' = filePath
  /\ opc' = "setParameters"
  /\ UNCHANGED <<sharp, filePath, worker, preprocessedPath, idx, results,
                 bestResult, ocrError, ocrResult, outcomes, workerLog, unlinkLog,
                 pdfVars, routeVars, textVars, twoVars>>

\* the for-of loop (line 205): the next configuration, or the code after it
NextIteration ==
  IF idx < NumConfigs
    THEN idx' = idx + 1 /\ opc' = "setParameters"
    ELSE idx' = idx /\ opc' = "select"

\* variant: a rejection of setParameters leaves the loop for the outer catch
setParameters_Abort ==
  /\ opc = "setParameters"
  /\ workerLog' = Append(workerLog, [op |-> "setParameters", config |-> idx])
  /\ \/ opc' = "recognize" /\ UNCHANGED <<idx, outcomes, ocrError>>
     \/ /\ outcomes' = [outcomes EXCEPT ![idx] =
                          [kind |-> "setParametersFailed", text |-> <<>>]]
        /\ ocrError' = <<"setParameters failed">>
        /\ opc' = "catchTerminate"
        /\ UNCHANGED idx
  /\ UNCHANGED <<files, sharp, filePath, worker, preprocessedPath, imagePath,
                 results, bestResult, ocrResult, unlinkLog,
                 pdfVars, routeVars, textVars, twoVars>>

\* line 207: worker.setParameters(config.params); a rejection is caught at
\* line 217 and the loop goes on
setParameters ==
  /\ opc = "setParameters"
  /\ workerLog' = Append(workerLog, [op |-> "setParameters", config |-> idx])
  /\ \/ opc' = "recognize" /\ UNCHANGED <<idx, outcomes>>
     \/ /\ outcomes' = [outcomes EXCEPT ![idx] =
                          [kind |-> "setParametersFailed", text |-> <<>>]]
        /\ NextIteration
  /\ UNCHANGED <<files, sharp, filePath, worker, preprocessedPath, imagePath,
                 results, bestResult, ocrError, ocrResult, unlinkLog,
                 pdfVars, routeVars, textVars, twoVars>>

\* lines 208-216: worker.recognize(imagePath), then the candidate is cleaned,
\* scored and pushed; a rejection is caught at line 217 and the loop goes on
recognize ==
  /\ opc = "recognize"
  /\ workerLog' = Append(workerLog, [op |-> "recognize", config |-> idx])
  /\ \/ \E text \in RawTexts :
          /\ results' = Append(results, Candidate(text, idx))
          /\ outcomes' = [outcomes EXCEPT ![idx] = [kind |-> "ok", text |-> text]]
     \/ /\ outcomes' = [outcomes EXCEPT ![idx] =
                          [kind |-> "recognizeFailed", text |-> <<>>]]
        /\ UNCHANGED results
  /\ NextIteration
  /\ UNCHANGED <<files, sharp, filePath, worker, preprocessedPath, imagePath,
                 bestResult, ocrError, ocrResult, unlinkLog,
                 pdfVars, routeVars, textVars, twoVars>>

\* lines 223-228: sort, take the first, throw when it has no text
selectBest ==
  /\ opc = "select"
  /\ results' = SortByQuality(results)
  /\ bestResult' = First(results')
  /\ IF NoBestText(bestResult')
       THEN ocrError' = MSG_NoTextImage /\ opc' = "catchTerminate"
       ELSE UNCHANGED ocrError /\ opc' = "terminate"
  /\ UNCHANGED <<files, sharp, filePath, worker, preprocessedPath, imagePath,
                 idx, ocrResult, outcomes, workerLog, unlinkLog,
                 pdfVars, routeVars, textVars, twoVars>>

\* line 230: worker.terminate() (it resolves: tesseract.js only drops the
\* worker thread)
terminate ==
  /\ opc = "terminate"
  /\ worker' = "terminated"
  /\ workerLog' = Append(workerLog, [op |-> "terminate", config |-> 0])
  /\ opc' = "unlink"
  /\ UNCHANGED <<files, sharp, filePath, preprocessedPath, imagePath, idx,
                 results, bestResult, ocrError, ocrResult, outcomes, unlinkLog,
                 pdfVars, routeVars, textVars, twoVars>>

\* lines 233-239: remove the preprocessed file, ignore a failure, return
unlinkPreprocessed ==
  /\ opc = "unlink"
  /\ IF preprocessedPath # NullPath /\ preprocessedPath # filePath
       THEN \E ok \in UnlinkOutcomes(preprocessedPath) :
              /\ files' = FilesAfterUnlink(preprocessedPath, ok)
              /\ unlinkLog' = Append(unlinkLog, ok)
       ELSE UNCHANGED <<files, unlinkLog>>
  /\ ocrResult' = Returned(bestResult[1].text)
  /\ opc' = "returned"
  /\ UNCHANGED <<sharp, filePath, worker, preprocessedPath, imagePath, idx,
                 results, bestResult, ocrError, outcomes, workerLog,
                 pdfVars, routeVars, textVars, twoVars>>

\* variant: the catch block goes on without terminating the worker
catchTerminate_NoTerminate ==
  /\ opc = "catchTerminate"
  /\ opc' = "catchUnlink"
  /\ UNCHANGED <<worker, workerLog, files, sharp, filePath, preprocessedPath,
                 imagePath, idx, results, bestResult, ocrError, ocrResult,
                 outcomes, unlinkLog, pdfVars, routeVars, textVars, twoVars>>

\* line 241: worker.terminate() in the catch block
catchTerminate ==
  /\ opc = "catchTerminate"
  /\ worker' = "terminated"
  /\ workerLog' = Append(workerLog, [op |-> "terminate", config |-> 0])
  /\ opc' = "catchUnlink"
  /\ UNCHANGED <<files, sharp, filePath, preprocessedPath, imagePath, idx,
                 results, bestResult, ocrError, ocrResult, outcomes, unlinkLog,
                 pdfVars, routeVars, textVars, twoVars>>

\* variant: the catch block rethrows without removing the preprocessed file
catchUnlinkPreprocessed_NoCleanup ==
  /\ opc = "catchUnlink"
  /\ ocrResult' = Thrown(MSG_ImageFailed(ocrError))
  /\ opc' = "thrown"
  /\ UNCHANGED <<files, unlinkLog, sharp, filePath, worker, preprocessedPath,
                 imagePath, idx, results, bestResult, ocrError, outcomes,
                 workerLog, pdfVars, routeVars, textVars, twoVars>>

\* lines 244-250: remove the preprocessed file, ignore a failure, rethrow
catchUnlinkPreprocessed ==
  /\ opc = "catchUnlink"
  /\ IF preprocessedPath # NullPath /\ preprocessedPath # filePath
       THEN \E ok \in UnlinkOutcomes(preprocessedPath) :
              /\ files' = FilesAfterUnlink(preprocessedPath, ok)
              /\ unlinkLog' = Append(unlinkLog, ok)
       ELSE UNCHANGED <<files, unlinkLog>>
  /\ ocrResult' = Thrown(MSG_ImageFailed(ocrError))
  /\ opc' = "thrown"
  /\ UNCHANGED <<sharp, filePath, worker, preprocessedPath, imagePath, idx,
                 results, bestResult, ocrError, outcomes, workerLog,
                 pdfVars, routeVars, textVars, twoVars>>

extractTextFromImage ==
  \/ createWorker \/ preprocessImage \/ metadata \/ toFile
  \/ setParameters \/ recognize \/ selectBest
  \/ terminate \/ unlinkPreprocessed
  \/ catchTerminate \/ catchUnlinkPreprocessed

\* ------------------------------------------------------------------------
\* extractTextFromPDF
\* ------------------------------------------------------------------------

MSG_Corrupted(m) ==
  <<"PDF appears to be ", "corrupted", " or uses unsupported features. Error: ">>
    \o m \o
  <<". Please try converting the PDF to a standard format or use an image version of the document.">>
MSG_NoTextPdf ==
  <<"No text could be extracted from the PDF. The PDF may contain only images.">>
MSG_NoExtractable ==
  <<"PDF appears to contain no extractable text. It may be an image-based PDF. Please try uploading as an image file instead.">>
MSG_Structural(m) ==
  <<"PDF parsing error: The PDF file appears to have structural issues (">>
    \o m \o
  <<"). This can happen with ", "corrupted", " PDFs or PDFs created with certain software. ",
    "Try: 1) Re-saving the PDF, 2) Converting to an image and uploading as PNG/JPEG, or 3) Using a different PDF file.">>
MSG_Password ==
  <<"PDF is ", "password", "-protected or ", "encrypted",
    ". Please remove the password and try again.">>
MSG_PdfFailed(m) == <<"Failed to extract text from PDF: ">> \o m

\* message.includes('XRef') || message.includes('xref')
IsXRefError(m) == Includes(m, "XRef") \/ Includes(m, "xref")

\* variant: the structural branch of the outer catch is missing
PdfFailure_NoStructural(m) ==
  IF Includes(m, "password") \/ Includes(m, "encrypted") THEN MSG_Password
  ELSE MSG_PdfFailed(m)

\* lines 62-75: the message of the error the call rejects with
PdfFailure(m) ==
  IF IsXRefError(m) THEN MSG_Structural(m)
  ELSE IF Includes(m, "password") \/ Includes(m, "encrypted") THEN MSG_Password
  ELSE MSG_PdfFailed(m)

\* line 11: fs.readFile(filePath)
readFile ==
  /\ ppc = "readFile"
  /\ \/ /\ pdfPath \in files
        /\ ppc' = "parse"
        /\ pdfTrace' = Append(pdfTrace, "Parse")
        /\ UNCHANGED pdfError
     \/ /\ pdfError' = <<"ENOENT: no such file or directory">>
        /\ ppc' = "catch"
        /\ pdfTrace' = Append(pdfTrace, "Fail")
  /\ UNCHANGED <<files, sharp, ocrVars, routeVars, textVars, twoVars, pdfPath, parseError, data,
                 pdfResult>>

\* variant: every error of the default parse is retried with relaxed options
parseDefault_RetryAlways ==
  /\ ppc = "parse"
  /\ \/ \E t \in PdfTexts :
          /\ data' = t
          /\ ppc' = "normalize"
          /\ pdfTrace' = Append(pdfTrace, "Normalize")
          /\ UNCHANGED <<parseError, pdfError>>
     \/ \E m \in PdfParseErrors :
          /\ parseError' = m
          /\ ppc' = "retry"
          /\ pdfTrace' = Append(pdfTrace, "Retry")
          /\ UNCHANGED <<pdfError, data>>
  /\ UNCHANGED <<files, sharp, ocrVars, routeVars, textVars, twoVars, pdfPath, pdfResult>>

\* lines 15-19 and 35-37: the default parse
parseDefault ==
  /\ ppc = "parse"
  /\ \/ \E t \in PdfTexts :
          /\ data' = t
          /\ ppc' = "normalize"
          /\ pdfTrace' = Append(pdfTrace, "Normalize")
          /\ UNCHANGED <<parseError, pdfError>>
     \/ \E m \in PdfParseErrors :
          /\ parseError' = m
          /\ IF IsXRefError(m)
               THEN /\ ppc' = "retry"
                    /\ pdfTrace' = Append(pdfTrace, "Retry")
                    /\ UNCHANGED pdfError
               ELSE /\ pdfError' = m
                    /\ ppc' = "catch"
                    /\ pdfTrace' = Append(pdfTrace, "Fail")
          /\ UNCHANGED data
  /\ UNCHANGED <<files, sharp, ocrVars, routeVars, textVars, twoVars, pdfPath, pdfResult>>

\* lines 23-34: the parse with relaxed options
parseRelaxed ==
  /\ ppc = "retry"
  /\ \/ \E t \in PdfTexts :
          /\ data' = t
          /\ ppc' = "normalize"
          /\ pdfTrace' = Append(pdfTrace, "Normalize")
          /\ UNCHANGED pdfError
     \/ \E m \in PdfParseErrors :
          /\ pdfError' = MSG_Corrupted(parseError)
          /\ ppc' = "catch"
          /\ pdfTrace' = Append(pdfTrace, "Fail")
          /\ UNCHANGED data
  /\ UNCHANGED <<files, sharp, ocrVars, routeVars, textVars, twoVars, pdfPath, parseError, pdfResult>>

\* text.replace(/\n{3,}/g, '\n\n').trim() (lines 49-50)
NormalizePdfText(t) == Trim(CollapseNewlines(t, 1))

\* lines 40-60
normalize ==
  /\ ppc = "normalize"
  /\ IF Len(data) = 0
       THEN /\ pdfError' = MSG_NoTextPdf
            /\ ppc' = "catch"
            /\ pdfTrace' = Append(pdfTrace, "Fail")
            /\ UNCHANGED pdfResult
       ELSE IF Len(NormalizePdfText(data)) = 0
         THEN /\ pdfError' = MSG_NoExtractable
              /\ ppc' = "catch"
              /\ pdfTrace' = Append(pdfTrace, "Fail")
              /\ UNCHANGED pdfResult
         ELSE /\ pdfResult' = Returned(NormalizePdfText(data))
              /\ ppc' = "returned"
              /\ UNCHANGED <<pdfError, pdfTrace>>
  /\ UNCHANGED <<files, sharp, ocrVars, routeVars, textVars, twoVars, pdfPath, parseError, data>>

\* lines 61-76
catchPdf ==
  /\ ppc = "catch"
  /\ pdfResult' = Thrown(PdfFailure(pdfError))
  /\ ppc' = "thrown"
  /\ UNCHANGED <<files, sharp, ocrVars, routeVars, textVars, twoVars, pdfPath, parseError, data,
                 pdfError, pdfTrace>>

extractTextFromPDF ==
  \/ readFile \/ parseDefault \/ parseRelaxed \/ normalize \/ catchPdf

\* ------------------------------------------------------------------------
\* router.post('/') of routes/upload.js and the error middleware
\* ------------------------------------------------------------------------

\* String.prototype.toLowerCase
ToLowerCase(s) ==
  [i \in 1..Len(s) |->
     IF s[i] \in Upper
       THEN LowerSeq[CHOOSE j \in 1..26 : UpperSeq[j] = s[i]]
       ELSE s[i]]

NoResponse == [status |-> 0, error |-> <<>>, suggestion |-> <<>>, extractedText |-> <<>>]
ErrorResponse(st, err, sugg) ==
  [status |-> st, error |-> err, suggestion |-> sugg, extractedText |-> <<>>]
\* res.json({success: true, ...})
SuccessResponse(t) ==
  [status |-> 200, error |-> <<>>, suggestion |-> <<>>, extractedText |-> t]

SUGG_Structural ==
  <<"This PDF appears to have structural issues. Try converting it to an image (PNG/JPEG) and uploading that instead, or re-save the PDF using a different PDF creator.">>
SUGG_PdfImages ==
  <<"The PDF may contain only images. Try converting it to an image file and uploading that instead.">>
SUGG_ImageUnclear ==
  <<"The image may not contain readable text, or the text may be too small or unclear.">>

fileExtension == ToLowerCase(reqFile.originalExt)

\* lines 14-46 up to the first await: the dispatch on the extension
postUpload ==
  /\ rpc = "start"
  /\ IF ~reqFile.present
       THEN /\ response' = ErrorResponse(400, <<"No file uploaded">>, <<>>)
            /\ rpc' = "done"
            /\ UNCHANGED <<ppc, pdfPath, opc, filePath>>
       ELSE IF fileExtension = E_pdf
         THEN /\ ppc' = "readFile"
              /\ pdfPath' = reqFile.path
              /\ rpc' = "awaitPdf"
              /\ UNCHANGED <<response, opc, filePath>>
       ELSE IF fileExtension \in {E_png, E_jpg, E_jpeg}
         THEN /\ opc' = "createWorker"
              /\ filePath' = reqFile.path
              /\ rpc' = "awaitImage"
              /\ UNCHANGED <<response, ppc, pdfPath>>
         ELSE /\ rpc' = "unlinkUnsupported"
              /\ UNCHANGED <<response, ppc, pdfPath, opc, filePath>>
  /\ UNCHANGED <<files, sharp, worker, preprocessedPath, imagePath, idx, results,
                 bestResult, ocrError, ocrResult, outcomes, workerLog, unlinkLog,
                 parseError, data, pdfError, pdfResult, pdfTrace,
                 reqFile, extractedText, routeError, uploadUnlinkLog, textVars, twoVars>>

\* lines 43-45: the unlink is awaited without a catch
unlinkUnsupported ==
  /\ rpc = "unlinkUnsupported"
  /\ \E ok \in UnlinkOutcomes(reqFile.path) :
       /\ files' = FilesAfterUnlink(reqFile.path, ok)
       /\ uploadUnlinkLog' = Append(uploadUnlinkLog, ok)
       /\ IF ok
            THEN /\ response' = ErrorResponse(400, <<"Unsupported file type">>, <<>>)
                 /\ rpc' = "done"
                 /\ UNCHANGED routeError
            ELSE /\ routeError' = <<"unlink failed">>
                 /\ rpc' = "catch"
                 /\ UNCHANGED response
  /\ UNCHANGED <<sharp, ocrVars, pdfVars, textVars, twoVars, reqFile, extractedText>>

\* lines 26-39: extractTextFromPDF has settled
pdfSettled ==
  /\ rpc = "awaitPdf"
  /\ ppc \in {"returned", "thrown"}
  /\ IF pdfResult.st = "ok"
       THEN /\ extractedText' = pdfResult.text
            /\ rpc' = "unlinkUploaded"
            /\ UNCHANGED <<response, routeError>>
       ELSE IF Includes(pdfResult.message, "XRef")
               \/ Includes(pdfResult.message, "corrupted")
         THEN /\ response' = ErrorResponse(400, pdfResult.message, SUGG_Structural)
              /\ rpc' = "done"
              /\ UNCHANGED <<extractedText, routeError>>
         ELSE /\ routeError' = pdfResult.message
              /\ rpc' = "catch"
              /\ UNCHANGED <<extractedText, response>>
  /\ UNCHANGED <<files, sharp, ocrVars, pdfVars, textVars, twoVars, reqFile,
                 uploadUnlinkLog>>

\* line 41: extractTextFromImage has settled
imageSettled ==
  /\ rpc = "awaitImage"
  /\ opc \in {"returned", "thrown"}
  /\ IF ocrResult.st = "ok"
       THEN /\ extractedText' = ocrResult.text
            /\ rpc' = "unlinkUploaded"
            /\ UNCHANGED routeError
       ELSE /\ routeError' = ocrResult.message
            /\ rpc' = "catch"
            /\ UNCHANGED extractedText
  /\ UNCHANGED <<files, sharp, ocrVars, pdfVars, textVars, twoVars, reqFile, response,
                 uploadUnlinkLog>>

\* lines 48-68: remove the upload (a failure is logged), then answer
unlinkUploaded ==
  /\ rpc = "unlinkUploaded"
  /\ \E ok \in UnlinkOutcomes(reqFile.path) :
       /\ files' = FilesAfterUnlink(reqFile.path, ok)
       /\ uploadUnlinkLog' = Append(uploadUnlinkLog, ok)
  /\ IF Len(extractedText) = 0 \/ Len(Trim(extractedText)) = 0
       THEN response' = ErrorResponse(400,
                          <<"No text could be extracted from the file">>,
                          IF fileExtension = E_pdf THEN SUGG_PdfImages
                                                   ELSE SUGG_ImageUnclear)
       ELSE response' = SuccessResponse(extractedText)
  /\ rpc' = "done"
  /\ UNCHANGED <<sharp, ocrVars, pdfVars, textVars, twoVars, reqFile, extractedText, routeError>>

\* lines 69-77 and the error middleware of server.js (lines 61-66)
catchRoute ==
  /\ rpc = "catch"
  /\ \E ok \in UnlinkOutcomes(reqFile.path) :
       /\ files' = FilesAfterUnlink(reqFile.path, ok)
       /\ uploadUnlinkLog' = Append(uploadUnlinkLog, ok)
  /\ response' = ErrorResponse(500, routeError, <<>>)
  /\ rpc' = "done"
  /\ UNCHANGED <<sharp, ocrVars, pdfVars, textVars, twoVars, reqFile, extractedText, routeError>>

uploadRoute ==
  \/ postUpload \/ unlinkUnsupported \/ pdfSettled \/ imageSettled
  \/ unlinkUploaded \/ catchRoute

\* ------------------------------------------------------------------------
\* Two calls of extractTextFromImage running interleaved
\* ------------------------------------------------------------------------

Calls == {1, 2}

\* the paths the two calls may be given
CallPaths ==
  {[stem |-> "uploads/f1", ext |-> ".png"], [stem |-> "uploads/f1", ext |-> ".jpg"],
   [stem |-> "uploads/f2", ext |-> ".png"], [stem |-> "uploads/f1", ext |-> ""]}
AllPaths == CallPaths \cup {PreprocessedPathOf(p) : p \in CallPaths}

\* the locals of a call that has not started (worker 0: none yet)
IdleCall ==
  [pc |-> "idle", filePath |-> NullPath, worker |-> 0,
   preprocessedPath |-> NullPath, imagePath |-> NullPath, idx |-> 1,
   hasText |-> FALSE, result |-> "none"]

TwoIdle ==
  /\ calls = [c \in Calls |-> IdleCall]
  /\ workers = <<>>
  /\ imageOf = [p \in AllPaths |-> 0]
  /\ accessLog = {}
  /\ recognitions = {}

requestVars == <<ocrVars, pdfVars, routeVars, textVars>>

\* a file access by call c: `of` is the call whose picture the path held
Access(c, op, p) == [by |-> c, op |-> op, path |-> p, of |-> imageOf[p]]

\* line 162: every call creates a worker of its own
createWorkerIn(c) ==
  /\ calls[c].pc = "createWorker"
  /\ \/ /\ workers' = Append(workers, [state |-> "live", params |-> 0])
        /\ calls' = [calls EXCEPT ![c].worker = Len(workers) + 1,
                                  ![c].pc = "preprocess"]
     \/ /\ calls' = [calls EXCEPT ![c].result = "err", ![c].pc = "thrown"]
        /\ UNCHANGED workers
  /\ UNCHANGED <<files, sharp, requestVars, imageOf, accessLog, recognitions>>

\* lines 167-168 and 19-23
preprocessImageIn(c) ==
  /\ calls[c].pc = "preprocess"
  /\ calls' = [calls EXCEPT
       ![c].preprocessedPath = PreprocessedPathOf(calls[c].filePath),
       ![c].imagePath = IF sharp THEN @ ELSE calls[c].filePath,
       ![c].pc = IF sharp THEN "metadata" ELSE "setParameters"]
  /\ UNCHANGED <<files, sharp, requestVars, workers, imageOf, accessLog,
                 recognitions>>

\* line 27: sharp(inputPath).metadata() reads the input file
metadataIn(c) ==
  /\ calls[c].pc = "metadata"
  /\ accessLog' = accessLog \cup {Access(c, "read", calls[c].filePath)}
  /\ \/ /\ calls[c].filePath \in files
        /\ calls' = [calls EXCEPT ![c].pc = "toFile"]
     \/ calls' = [calls EXCEPT ![c].imagePath = calls[c].filePath,
                               ![c].pc = "setParameters"]
  /\ UNCHANGED <<files, sharp, requestVars, workers, imageOf, recognitions>>

\* lines 35-51: pipeline.toFile(outputPath) writes the picture made from the
\* input to preprocessedPath; a rejection may leave a partly written file
toFileIn(c) ==
  LET out == calls[c].preprocessedPath
      written == /\ files' = files \cup {out}
                 /\ imageOf' = [imageOf EXCEPT ![out] = c]
                 /\ accessLog' = accessLog \cup {Access(c, "write", out)}
  IN /\ calls[c].pc = "toFile"
     /\ \/ /\ calls[c].filePath \in files
           /\ written
           /\ calls' = [calls EXCEPT ![c].imagePath = out,
                                     ![c].pc = "setParameters"]
        \/ /\ written \/ UNCHANGED <<files, imageOf, accessLog>>
           /\ calls' = [calls EXCEPT ![c].imagePath = calls[c].filePath,
                                     ![c].pc = "setParameters"]
     /\ UNCHANGED <<sharp, requestVars, workers, recognitions>>

\* the for-of loop (line 205), on the locals r of a call
NextIterationIn(r) ==
  IF r.idx < NumConfigs
    THEN [r EXCEPT !.idx = @ + 1, !.pc = "setParameters"]
    ELSE [r EXCEPT !.pc = "select"]

\* line 207: the parameters are set on the call's own worker
setParametersIn(c) ==
  /\ calls[c].pc = "setParameters"
  /\ \/ /\ workers' = [workers EXCEPT ![calls[c].worker].params = calls[c].idx]
        /\ calls' = [calls EXCEPT ![c].pc = "recognize"]
     \/ /\ calls' = [calls EXCEPT ![c] = NextIterationIn(@)]
        /\ UNCHANGED workers
  /\ UNCHANGED <<files, sharp, requestVars, imageOf, accessLog, recognitions>>

\* lines 208-216: the call's worker reads imagePath with the parameters it
\* holds (`own`: those of the configuration of this iteration); the cleaned
\* text is kept only as empty or not
recognizeIn(c) ==
  /\ calls[c].pc = "recognize"
  /\ accessLog' = accessLog \cup {Access(c, "read", calls[c].imagePath)}
  /\ recognitions' = recognitions \cup
       {[by |-> c, worker |-> calls[c].worker,
         own |-> workers[calls[c].worker].params = calls[c].idx]}
  /\ \E got \in (IF calls[c].imagePath \in files
                    THEN {"text", "empty", "failed"} ELSE {"failed"}) :
       calls' = [calls EXCEPT
         ![c] = NextIterationIn([@ EXCEPT !.hasText = @ \/ got = "text"])]
  /\ UNCHANGED <<files, sharp, requestVars, workers, imageOf>>

\* lines 223-228
selectBestIn(c) ==
  /\ calls[c].pc = "select"
  /\ calls' = [calls EXCEPT
       ![c].pc = IF calls[c].hasText THEN "terminate" ELSE "catchTerminate"]
  /\ UNCHANGED <<files, sharp, requestVars, workers, imageOf, accessLog,
                 recognitions>>

\* lines 230 and 241: worker.terminate()
terminateIn(c) ==
  /\ calls[c].pc \in {"terminate", "catchTerminate"}
  /\ workers' = [workers EXCEPT ![calls[c].worker].state = "terminated"]
  /\ calls' = [calls EXCEPT
       ![c].pc = IF calls[c].pc = "terminate" THEN "unlink" ELSE "catchUnlink"]
  /\ UNCHANGED <<files, sharp, requestVars, imageOf, accessLog, recognitions>>

\* lines 233-239 and 244-250: remove preprocessedPath, then return or throw
unlinkPreprocessedIn(c) ==
  LET out == calls[c].preprocessedPath
  IN /\ calls[c].pc \in {"unlink", "catchUnlink"}
     /\ IF out # NullPath /\ out # calls[c].filePath
          THEN \E ok \in UnlinkOutcomes(out) :
                 /\ files' = FilesAfterUnlink(out, ok)
                 /\ imageOf' = IF ok THEN [imageOf EXCEPT ![out] = 0]
                                     ELSE imageOf
                 /\ accessLog' = IF ok
                      THEN accessLog \cup {Access(c, "unlink", out)}
                      ELSE accessLog
          ELSE UNCHANGED <<files, imageOf, accessLog>>
     /\ calls' = [calls EXCEPT
          ![c].result = IF calls[c].pc = "unlink" THEN "ok" ELSE "err",
          ![c].pc = IF calls[c].pc = "unlink" THEN "returned" ELSE "thrown"]
     /\ UNCHANGED <<sharp, requestVars, workers, recognitions>>

extractTextFromImageIn(c) ==
  \/ createWorkerIn(c) \/ preprocessImageIn(c) \/ metadataIn(c) \/ toFileIn(c)
  \/ setParametersIn(c) \/ recognizeIn(c) \/ selectBestIn(c)
  \/ terminateIn(c) \/ unlinkPreprocessedIn(c)

\* ------------------------------------------------------------------------
\* One upload request, from the handler's entry to its response
\* ------------------------------------------------------------------------

vars == <<files, sharp, ocrVars, pdfVars, routeVars, textVars, twoVars>>

\* no call of either extractor in progress
ExtractorsIdle ==
  /\ opc = "idle" /\ filePath = NullPath /\ worker = "none"
  /\ preprocessedPath = NullPath /\ imagePath = NullPath
  /\ idx = 1 /\ results = <<>> /\ bestResult = <<>>
  /\ ocrError = <<>> /\ ocrResult = NoResult
  /\ outcomes = [k \in 1..NumConfigs |-> NoOutcome]
  /\ workerLog = <<>> /\ unlinkLog = <<>>
  /\ ppc = "idle" /\ pdfPath = NullPath /\ parseError = <<>> /\ data = <<>>
  /\ pdfError = <<>> /\ pdfResult = NoResult /\ pdfTrace = <<>>

TextIdle ==
  /\ tpc = "idle" /\ rawText = <<>> /\ cleanedText = <<>>
  /\ quality = [num |-> 0, den |-> 1]

Init ==
  /\ sharp \in BOOLEAN
  /\ reqFile \in [present : {TRUE}, path : UploadPaths, originalExt : OriginalExts]
                   \cup {[present |-> FALSE, path |-> NullPath, originalExt |-> <<>>]}
  /\ files = IF reqFile.present THEN {reqFile.path} ELSE {}
  /\ ExtractorsIdle
  /\ rpc = "start" /\ extractedText = <<>> /\ routeError = <<>>
  /\ response = NoResponse /\ uploadUnlinkLog = <<>>
  /\ TextIdle
  /\ TwoIdle

Next == uploadRoute \/ extractTextFromImage \/ extractTextFromPDF

Spec == Init /\ [][Next]_vars

\* ------------------------------------------------------------------------
\* The sanitizer and the scorer on their own, over bounded texts
\* ------------------------------------------------------------------------

\* number of fragments an input text is made of, at most
MaxFrags == 3

F_space    == <<" ">>
F_newline  == <<"\n">>
F_others   == <<"5"," ","o","t","h","e","r","s">>
F_comments == <<"1","2"," ","c","o","m","m","e","n","t","s">>
F_like     == <<"l","i","k","e">>
F_hello    == <<"h","e","l","l","o">>
F_at       == <<"@">>
F_stars    == <<"*","*","*">>
F_names    == <<"J","a","n","e"," ","D","o","e"," ","a","n","d"," ","5","4",
                " ","o","t","h","e","r","s">>
F_quote    == <<"'">>
F_tab      == <<"\t">>
Fragments == {F_space, F_newline, F_others, F_comments, F_like, F_hello, F_at,
              F_stars, F_names, F_quote, F_tab}

RECURSIVE Concat(_)
Concat(fs) == IF Len(fs) = 0 THEN <<>> ELSE fs[1] \o Concat(Tail(fs))

\* every concatenation of at most MaxFrags fragments
TextInputs ==
  UNION {{Concat(fs) : fs \in [1..n -> Fragments]} : n \in 0..MaxFrags}

InitText ==
  /\ sharp = TRUE
  /\ reqFile = [present |-> FALSE, path |-> NullPath, originalExt |-> <<>>]
  /\ files = {}
  /\ ExtractorsIdle
  /\ rpc = "idle" /\ extractedText = <<>> /\ routeError = <<>>
  /\ response = NoResponse /\ uploadUnlinkLog = <<>>
  /\ tpc = "raw" /\ rawText \in TextInputs /\ cleanedText = <<>>
  /\ quality = [num |-> 0, den |-> 1]
  /\ TwoIdle

\* line 209: const cleanedText = cleanOCRText(text)
applyClean ==
  /\ tpc = "raw"
  /\ cleanedText' = cleanOCRText(rawText)
  /\ tpc' = "cleaned"
  /\ UNCHANGED <<files, sharp, ocrVars, pdfVars, routeVars, twoVars, rawText, quality>>

\* line 210: const quality = scoreOCRQuality(cleanedText)
applyScore ==
  /\ tpc = "cleaned"
  /\ quality' = scoreOCRQuality(cleanedText)
  /\ tpc' = "scored"
  /\ UNCHANGED <<files, sharp, ocrVars, pdfVars, routeVars, twoVars, rawText, cleanedText>>

NextText == applyClean \/ applyScore

SpecText == InitText /\ [][NextText]_vars

\* ------------------------------------------------------------------------
\* Two interleaved calls on distinct files
\* ------------------------------------------------------------------------

InitTwo ==
  /\ sharp \in BOOLEAN
  /\ \E p \in CallPaths, q \in CallPaths :
       /\ p # q
       /\ calls = [c \in Calls |->
                     [IdleCall EXCEPT !.pc = "createWorker",
                                      !.filePath = IF c = 1 THEN p ELSE q]]
       /\ files = {p, q}
       /\ imageOf = [x \in AllPaths |-> IF x = p THEN 1 ELSE IF x = q THEN 2 ELSE 0]
  /\ workers = <<>> /\ accessLog = {} /\ recognitions = {}
  /\ ExtractorsIdle
  /\ reqFile = [present |-> FALSE, path |-> NullPath, originalExt |-> <<>>]
  /\ rpc = "idle" /\ extractedText = <<>> /\ routeError = <<>>
  /\ response = NoResponse /\ uploadUnlinkLog = <<>>
  /\ TextIdle

NextTwo == \E c \in Calls : extractTextFromImageIn(c)

SpecTwo == InitTwo /\ [][NextTwo]_vars

\* ------------------------------------------------------------------------
\* Properties of one upload request (specification Spec)
\* ------------------------------------------------------------------------

OcrSettled == opc \in {"returned", "thrown"}
PdfSettled == ppc \in {"returned", "thrown"}
\* the call got past createWorker, into the try block
OcrInTry == worker # "none"

\* C1: an extraction that returns successfully returns a text that is
\* non-empty after trimming (image and PDF extractor, and the text of a 200
\* response); an extraction whose best text is empty ends in a failure.
C1_ReturnedTextNonEmpty ==
  /\ ocrResult.st = "ok" => Len(Trim(ocrResult.text)) > 0
  /\ pdfResult.st = "ok" => Len(Trim(pdfResult.text)) > 0
  /\ response.status = 200 => Len(Trim(response.extractedText)) > 0
  /\ (OcrSettled /\ OcrInTry
        /\ (Len(results) = 0 \/ Len(Trim(results[1].text)) = 0))
       => ocrResult.st = "err"
  /\ (PdfSettled /\ pdfTrace[Len(pdfTrace)] = "Normalize")
       => Len(Trim(data)) > 0 /\ pdfResult.st = "ok"
  /\ (PdfSettled /\ Len(Trim(data)) = 0) => pdfResult.st = "err"

\* a call returned a text although another profile's cleaned text was empty
C1_Witness ==
  /\ response.status = 200
  /\ ocrResult.st = "ok"
  /\ \E k \in 1..Len(results) : Len(results[k].text) = 0

\* C2: on every exit of extractTextFromImage the preprocessed file is gone
\* unless its removal itself failed: the removal was attempted once, the
\* only file left besides the upload is a preprocessed file whose unlink
\* failed, and a failed unlink changes nothing in how the call ends.
C2_PreprocessedRemoved ==
  OcrSettled =>
    /\ \A p \in files :
         p # filePath =>
           /\ p = preprocessedPath
           /\ unlinkLog = <<FALSE>>
    /\ (OcrInTry /\ preprocessedPath # filePath) => Len(unlinkLog) = 1
    /\ OcrInTry =>
         /\ ocrResult.st = "ok" <=> ~NoBestText(bestResult)
         /\ ocrResult.st = "err" =>
              ocrResult.message = MSG_ImageFailed(MSG_NoTextImage)

\* the failing exit, after the preprocessed file was written and removed
C2_Witness ==
  /\ opc = "thrown"
  /\ imagePath = preprocessedPath
  /\ preprocessedPath # filePath
  /\ unlinkLog = <<TRUE>>
  /\ preprocessedPath \notin files

\* the configurations whose setParameters was called, in call order
SetParametersCalls ==
  LET made == SelectSeq(workerLog, LAMBDA e : e.op = "setParameters")
  IN [k \in 1..Len(made) |-> made[k].config]
RecognizeCalls ==
  LET made == SelectSeq(workerLog, LAMBDA e : e.op = "recognize")
  IN [k \in 1..Len(made) |-> made[k].config]
Succeeded == {k \in 1..NumConfigs : outcomes[k].kind = "ok"}
LoopDone == OcrInTry /\ opc \notin {"preprocess", "metadata", "toFile",
                                    "setParameters", "recognize"}

\* C3: once the loop is over every configuration was attempted exactly once
\* in declared order, whatever failed; recognize ran for exactly those whose
\* setParameters succeeded; the candidates are those of the configurations
\* that succeeded, one each; with none the call fails.
C3_EveryProfileAttempted ==
  LoopDone =>
    /\ SetParametersCalls = [k \in 1..NumConfigs |-> k]
    /\ \A k \in 1..NumConfigs : outcomes[k].kind # "none"
    /\ {RecognizeCalls[j] : j \in 1..Len(RecognizeCalls)}
         = {k \in 1..NumConfigs : outcomes[k].kind # "setParametersFailed"}
    /\ Len(RecognizeCalls) = Cardinality({RecognizeCalls[j] : j \in 1..Len(RecognizeCalls)})
    /\ Len(results) = Cardinality(Succeeded)
    /\ Len(results) <= NumConfigs
    /\ {results[j].config : j \in 1..Len(results)}
         = {configurations[k].name : k \in Succeeded}
    /\ (OcrSettled /\ Succeeded = {}) => ocrResult.st = "err"

\* a setParameters failure and a recognize failure, then a profile that
\* succeeds and whose text is returned
C3_Witness ==
  /\ opc = "returned"
  /\ outcomes[1].kind = "setParametersFailed"
  /\ outcomes[2].kind = "recognizeFailed"
  /\ outcomes[3].kind = "ok"
  /\ outcomes[4].kind = "recognizeFailed"

ConfigIndex(name) == CHOOSE k \in 1..NumConfigs : configurations[k].name = name
Selected == opc \in {"terminate", "unlink", "returned",
                     "catchTerminate", "catchUnlink", "thrown"} /\ OcrInTry

\* C4: the selected candidate has the highest quality; among the candidates
\* of that quality it is the one of the first-declared configuration; the
\* call fails exactly when there is no candidate or the selected one has an
\* empty text.
C4_SelectorPicksBest ==
  Selected =>
    /\ Len(results) = 0 <=> Len(bestResult) = 0
    /\ Len(results) > 0 =>
         /\ \E j \in 1..Len(results) : results[j] = bestResult[1]
         /\ \A j \in 1..Len(results) :
              /\ ~ScoreLess(bestResult[1].quality, results[j].quality)
              /\ (ScoreEq(results[j].quality, bestResult[1].quality)
                    /\ results[j] # bestResult[1])
                   => ConfigIndex(bestResult[1].config) < ConfigIndex(results[j].config)
    /\ OcrSettled =>
         /\ ocrResult.st = "err"
              <=> (Len(results) = 0 \/ Len(Trim(bestResult[1].text)) = 0)
         /\ ocrResult.st = "ok" => ocrResult.text = bestResult[1].text

\* two profiles tie for the highest quality with different texts, and the
\* text of the first-declared of them is returned
C4_Witness ==
  /\ opc = "returned"
  /\ outcomes[2].kind = "ok" /\ outcomes[2].text = T_jello
  /\ outcomes[3].kind = "ok" /\ outcomes[3].text = T_hello
  /\ outcomes[1].kind # "ok" /\ outcomes[4].kind = "ok"
  /\ ocrResult.text = cleanOCRText(T_jello)

\* the default parse failed with a cross-reference error
DefaultParseStructural ==
  Includes(parseError, "XRef") \/ Includes(parseError, "xref")
TraceHas(st) == \E k \in 1..Len(pdfTrace) : pdfTrace[k] = st

\* C5: in the trace of states of extractTextFromPDF, Parse is entered first
\* and once; Retry is entered only directly after a Parse that failed with a
\* cross-reference error, hence at most once; any other parse error goes
\* from Parse to Fail; a default parse that succeeds never enters Retry;
\* nothing follows Fail.
C5_PdfStateMachine ==
  /\ \A k \in 1..Len(pdfTrace) :
       /\ pdfTrace[k] = "Parse" => k = 1
       /\ pdfTrace[k] = "Retry" =>
            k = 2 /\ pdfTrace[1] = "Parse" /\ DefaultParseStructural
       /\ pdfTrace[k] = "Fail" => k = Len(pdfTrace)
  /\ (parseError # <<>> /\ ~DefaultParseStructural)
       => pdfTrace = <<"Parse", "Fail">>
  /\ (Len(pdfTrace) >= 2 /\ pdfTrace[1] = "Parse" /\ parseError = <<>>)
       => ~TraceHas("Retry")
  /\ (ppc = "thrown" /\ pdfTrace # <<>>) => pdfTrace[Len(pdfTrace)] = "Fail"
  /\ ppc = "returned" => pdfTrace[Len(pdfTrace)] = "Normalize"

\* a cross-reference error of the default parse, then a relaxed parse that
\* recovers the text
C5_Witness ==
  /\ ppc = "returned"
  /\ pdfTrace = <<"Parse", "Retry", "Normalize">>
  /\ pdfResult.text = T_report

\* a failure of kind StructuralCorruption: the message of line 64-68, with
\* its remediation suggestion
IsStructuralCorruption(m) ==
  /\ Len(m) > 0
  /\ m[1] = "PDF parsing error: The PDF file appears to have structural issues ("
  /\ Includes(m, "Try: 1) Re-saving the PDF, 2) Converting to an image and uploading as PNG/JPEG, or 3) Using a different PDF file.")
\* a failure that reports that the PDF has no extractable text
IsNoExtractableText(m) ==
  m \in {MSG_PdfFailed(MSG_NoTextPdf), MSG_PdfFailed(MSG_NoExtractable)}

RetryFailed == pdfTrace = <<"Parse", "Retry", "Fail">>
RetryRecoveredNoText == pdfTrace = <<"Parse", "Retry", "Normalize", "Fail">>

\* C6 as stated: a PDF whose default parse fails with a cross-reference
\* error and that yields no text ends in a StructuralCorruption failure with
\* a remediation suggestion, both when the relaxed parse fails and when it
\* parses without recovering text.
C6_Original ==
  (ppc = "thrown" /\ (RetryFailed \/ RetryRecoveredNoText))
    => IsStructuralCorruption(pdfResult.message)

\* C6 as amended: when the relaxed parse fails too, the call ends in a
\* StructuralCorruption failure with a remediation suggestion and the route
\* answers 400 with a non-empty suggestion; when the relaxed parse succeeds
\* without text, the call ends in a no-extractable-text failure, which is
\* not of kind StructuralCorruption.
C6_StructuralWhenRetryFails ==
  /\ (ppc = "thrown" /\ RetryFailed) =>
       /\ IsStructuralCorruption(pdfResult.message)
       /\ rpc = "done" =>
            /\ response.status = 400
            /\ response.error = pdfResult.message
            /\ Len(response.suggestion) > 0
  /\ (ppc = "thrown" /\ RetryRecoveredNoText) =>
       /\ IsNoExtractableText(pdfResult.message)
       /\ ~IsStructuralCorruption(pdfResult.message)

\* both parses failed and the route has answered
C6_Witness ==
  /\ ppc = "thrown"
  /\ RetryFailed
  /\ rpc = "done"

\* ------------------------------------------------------------------------
\* Properties of the sanitizer and the scorer (specification SpecText)
\* ------------------------------------------------------------------------

Cleaned == tpc \in {"cleaned", "scored"}
\* the lines of a text (a text without characters has no line)
LinesOf(t) == IF Len(t) = 0 THEN {}
              ELSE LET ls == SplitLines(t) IN {ls[i] : i \in 1..Len(ls)}

\* "<Name> <Name> and <number> others ... <number> comments", a whole line
RE_NamesMetricLine ==
  << <<Bol, One(Letter), Plus(Letter), Plus(Space),
       One(Letter), Plus(Letter), Plus(Space)>>
       \o LitCI(W_and) \o <<Plus(Space), Plus(Digit), Plus(Space)>>
       \o LitCI(W_others) \o <<Star(Dot), Plus(Digit), Plus(Space)>>
       \o LitCI(W_comment) \o <<OptS, Eol>> >>

\* a line of an engagement-metric shape: "<number> others|comments", the
\* names line, or a bare action-button label
IsEngagementLine(line) ==
  \/ TestAnchored(RE_CountLine, line)
  \/ TestAnchored(RE_NamesMetricLine, line)
  \/ TestAnchored(RE_Label, line)

\* C7: no line of the sanitizer's output has an engagement-metric shape,
\* whatever white space the input line carried.
C7_NoEngagementLine ==
  Cleaned => \A line \in LinesOf(cleanedText) : ~IsEngagementLine(Trim(line))

\* C8 as stated: every line of the output is a line of the input, and the
\* output is not longer than the input.
C8_Original ==
  Cleaned =>
    /\ LinesOf(cleanedText) \subseteq LinesOf(rawText)
    /\ Len(cleanedText) <= Len(rawText)

RECURSIVE IsSubsequence(_, _, _, _)
\* a[i..] is a subsequence of b[j..]
IsSubsequence(a, i, b, j) ==
  IF i > Len(a) THEN TRUE
  ELSE IF j > Len(b) THEN FALSE
  ELSE IF a[i] = b[j] THEN IsSubsequence(a, i + 1, b, j + 1)
  ELSE IsSubsequence(a, i, b, j + 1)

NonSpace(t) == SelectSeq(t, LAMBDA ch : ch \notin Space)

\* C8 as amended: the sanitizer only deletes characters and rewrites white
\* space, so the output's characters other than white space are a
\* subsequence of the input's, and the output is not longer than the input
\* (a line of the output need not be a line of the input).
C8_OnlyDeletes ==
  Cleaned =>
    /\ IsSubsequence(NonSpace(cleanedText), 1, NonSpace(rawText), 1)
    /\ Len(cleanedText) <= Len(rawText)

\* an output with a line that is no line of the input
C8_Witness ==
  /\ tpc = "cleaned"
  /\ Len(cleanedText) > 0
  /\ ~(LinesOf(cleanedText) \subseteq LinesOf(rawText))

\* C9: the quality score of a cleaned text is in [0,1], and it is 0 for a
\* text without words.
C9_ScoreInUnitInterval ==
  tpc = "scored" =>
    /\ 0 <= quality.num
    /\ quality.num <= quality.den
    /\ WordLens(cleanedText, 1) = <<>> => quality.num = 0

\* ------------------------------------------------------------------------
\* Order of the recognition profiles (specification Spec)
\* ------------------------------------------------------------------------

\* extractTextFromImage has just settled after running the loop
JustSettled == OcrSettled /\ OcrInTry /\ rpc = "awaitImage"
DeclaredOrder == [k \in 1..NumConfigs |-> k]

\* C10 as stated: for the candidates of this run, running the configurations
\* in any other order ends the call the same way, with the same text.
C10_Original ==
  JustSettled =>
    LET cands == Candidates(results)
    IN \A p \in Permutations4 : SelectFrom(RunProfiles(p, cands, 1)) = ocrResult

\* the texts of the candidates of the highest quality
TopTexts(rs) ==
  {rs[j].text : j \in {i \in 1..Len(rs) :
      \A h \in 1..Len(rs) : ~ScoreLess(rs[i].quality, rs[h].quality)}}

\* C10 as amended: for the candidates of this run, every order of the
\* configurations ends the call the same way (a text or the failure) and
\* selects a candidate of the same quality; it selects the same text
\* whenever the candidates of the highest quality all have the same text.
C10_OrderIndependentScore ==
  JustSettled =>
    LET cands == Candidates(results)
    IN /\ SelectFrom(RunProfiles(DeclaredOrder, cands, 1)) = ocrResult
       /\ \A p \in Permutations4 :
            LET rs   == RunProfiles(p, cands, 1)
                best == First(SortByQuality(rs))
                r    == SelectFrom(rs)
            IN /\ r.st = ocrResult.st
               /\ Len(best) = Len(bestResult)
               /\ Len(best) > 0 =>
                    ScoreEq(best[1].quality, bestResult[1].quality)
               /\ Cardinality(TopTexts(rs)) <= 1 => r = ocrResult

\* two configurations tie for the highest quality with different texts
C10_Witness ==
  /\ JustSettled
  /\ ocrResult.st = "ok"
  /\ Cardinality(TopTexts(results)) = 2

\* ------------------------------------------------------------------------
\* The upload route (specification Spec)
\* ------------------------------------------------------------------------

\* ['.png', '.jpg', '.jpeg'] (line 40)
ImageExts == {E_png, E_jpg, E_jpeg}
\* extractTextFromPDF / extractTextFromImage was called by the handler
PdfInvoked == ppc # "idle"
OcrInvoked == opc # "idle"
\* res.status(400).json({ error: 'Unsupported file type' }) (line 45)
UnsupportedResponse == ErrorResponse(400, <<"Unsupported file type">>, <<>>)

\* C12: once the handler has dispatched a received file, a .pdf extension
\* (lower-cased) has invoked the PDF extractor and never the OCR pipeline,
\* .png/.jpg/.jpeg have invoked the OCR pipeline and never the PDF
\* extractor, and any other extension invokes neither and is answered with
\* the unsupported-file-type failure.
C12_DispatchOnExtension ==
  /\ rpc = "start" => ~PdfInvoked /\ ~OcrInvoked
  /\ (reqFile.present /\ rpc # "start") =>
       /\ fileExtension = E_pdf => PdfInvoked /\ ~OcrInvoked
       /\ fileExtension \in ImageExts => OcrInvoked /\ ~PdfInvoked
       /\ fileExtension \notin ImageExts \cup {E_pdf} =>
            /\ ~PdfInvoked /\ ~OcrInvoked
            /\ rpc = "done" => response = UnsupportedResponse

\* every fs.unlink of the upload made so far succeeded
UploadUnlinksSucceeded ==
  \A i \in 1..Len(uploadUnlinkLog) : uploadUnlinkLog[i]

\* C13: when a response is sent for a request that carried a file, the
\* uploaded file no longer exists (a removal that itself failed set aside),
\* whichever way the request ended: success, empty text, unsupported type,
\* structural PDF error answered with 400, or an error forwarded to the
\* error middleware.
C13_UploadDeletedBeforeResponse ==
  (response.status # 0 /\ reqFile.present /\ UploadUnlinksSucceeded)
    => reqFile.path \notin files

\* ------------------------------------------------------------------------
\* Lifecycle of the recognition worker (specification Spec)
\* ------------------------------------------------------------------------

\* the positions of workerLog at which worker.terminate() was called
TerminateCalls == {i \in 1..Len(workerLog) : workerLog[i].op = "terminate"}

\* C14: a call of extractTextFromImage that obtained a worker has terminated
\* it, exactly once, when the call returns or throws; terminate is the last
\* call made on the worker, so no setParameters or recognize follows it; a
\* call that obtained no worker made no call on one.
C14_WorkerTerminated ==
  /\ (OcrSettled /\ OcrInTry) =>
       /\ worker = "terminated"
       /\ TerminateCalls = {Len(workerLog)}
  /\ \A i \in TerminateCalls : i = Len(workerLog)
  /\ worker = "terminated" <=> TerminateCalls # {}
  /\ worker = "none" => workerLog = <<>>
  /\ worker # "none" => workerLog[1].op = "createWorker"

\* the call threw after every configuration was recognized, the worker
\* terminated in the catch block
C14_Witness ==
  /\ opc = "thrown"
  /\ worker = "terminated"
  /\ Len(RecognizeCalls) = NumConfigs
  /\ workerLog[Len(workerLog)].op = "terminate"

\* ------------------------------------------------------------------------
\* Empty and non-empty candidates (specification Spec)
\* ------------------------------------------------------------------------

\* a candidate in the results array has a non-empty cleaned text
NonEmptyCandidate == \E j \in 1..Len(results) : Len(results[j].text) > 0
\* the results array was sorted (line 223)
ResultsSorted == OcrInTry /\ opc \in {"terminate", "unlink", "returned",
                                      "catchTerminate", "catchUnlink", "thrown"}

\* C15: a candidate scores above 0 exactly when its cleaned text is
\* non-empty; so once the candidates are sorted an empty one is first only
\* when all are empty, and a call with a non-empty candidate returns a
\* non-empty text instead of failing with the no-text error, which is how
\* the call ends when no candidate has text.
C15_NonEmptyCandidateWins ==
  /\ \A j \in 1..Len(results) :
       /\ results[j].quality.den > 0
       /\ results[j].quality.num >= 0
       /\ Len(results[j].text) > 0 <=> results[j].quality.num > 0
  /\ (ResultsSorted /\ Len(results) > 0 /\ Len(results[1].text) = 0)
       => ~NonEmptyCandidate
  /\ (ResultsSorted /\ NonEmptyCandidate) =>
       /\ ocrError # MSG_NoTextImage
       /\ Len(bestResult[1].text) > 0
  /\ (OcrSettled /\ OcrInTry) =>
       IF NonEmptyCandidate
         THEN ocrResult.st = "ok" /\ Len(ocrResult.text) > 0
         ELSE ocrResult = Thrown(MSG_ImageFailed(MSG_NoTextImage))

\* the first profile's text was cleaned to nothing, a later profile's was
\* not: the empty candidate was pushed first, is sorted last, and the call
\* returns
C15_Witness ==
  /\ opc = "returned"
  /\ outcomes[1].kind = "ok"
  /\ Len(Candidates(results)[1][1].text) = 0
  /\ Len(results[Len(results)].text) = 0
  /\ Len(ocrResult.text) > 0

\* ------------------------------------------------------------------------
\* Interference between two calls (specification SpecTwo)
\* ------------------------------------------------------------------------

\* C11: two interleaved calls on distinct files use distinct workers and
\* write their preprocessed images to distinct paths (no path is written by
\* both); no call writes over, reads or removes
\* a file that holds the other call's picture (its input or its preprocessed
\* image); and every recognition runs on the caller's own worker with the
\* parameters of the caller's current configuration.
C11_NoSharedPipelineState ==
  /\ \A c, d \in Calls :
       (c # d /\ calls[c].worker # 0 /\ calls[d].worker # 0)
         => calls[c].worker # calls[d].worker
  /\ \A e, f \in accessLog :
       (e.op = "write" /\ f.op = "write" /\ e.path = f.path) => e.by = f.by
  /\ \A e \in accessLog : e.of \in {0, e.by}
  /\ \A r \in recognitions :
       /\ r.worker = calls[r.by].worker
       /\ r.own

====
